---------------------------- MODULE Spec2Model ----------------------------
(***************************************************************************)
(* Model of the uip overlay daemon: the frame codec (transport.rs), the    *)
(* per-peer Transport (transport.rs) and the shared State with its control *)
(* channel and driver tick (state.rs).                                     *)
(*                                                                         *)
(* Two state machines share the module.  SpecCodec drives Codec::encode    *)
(* and Codec::decode the way tokio's framed reader drives them (decode     *)
(* until "need more data", then read more bytes).  Spec is the daemon: one *)
(* single-threaded reactor on which every task poll is one atomic step.    *)
(***************************************************************************)
EXTENDS Integers, Sequences, FiniteSets, Bags, TLC

(***************************************************************************)
(* Bounds of the model.                                                    *)
(***************************************************************************)
\* longest payload the codec harness enumerates exhaustively
MaxCodecLen == 2
\* oversized payloads tried by the harness: 65536 .. 65536 + MaxOver bytes
MaxOver == 1
\* decode calls the harness makes on one buffer
MaxDecodes == 3
\* inputs the environment supplies to the daemon in one run: frames on the wire,
\* accepted registrations and application datagrams together
MaxEvents == 2
\* frames a peer sends after the queue of a stalled route has filled up
MaxFloodExtra == 1
\* inputs the environment supplies in one run of the daemon whose relay list names
\* one relay twice
MaxRaceEvents == 3

(***************************************************************************)
(* Program constants.                                                      *)
(***************************************************************************)
\* `data.len() as u16` keeps the length modulo 2^16
U16Mod == 65536
\* the header a Data frame needs before its payload: tag, channel, length
DataHeaderLen == 5
\* buffer of the futures mpsc channels: channel::<Frame>(10), channel::<BytesMut>(10)
ChannelBuffer == 10

(***************************************************************************)
(* Frames (transport.rs, enum Frame).  Ping and Pong carry no fields; the  *)
(* records are kept uniform so that frames compare with =.                 *)
(***************************************************************************)
Ping == [tag |-> "Ping", ch |-> 0, data |-> <<>>]
Pong == [tag |-> "Pong", ch |-> 0, data |-> <<>>]
Data(app_id, data) == [tag |-> "Data", ch |-> app_id, data |-> data]

(***************************************************************************)
(* bytes / byteorder helpers.                                              *)
(***************************************************************************)
\* put_u16::<BigEndian>(v)
PutU16BE(v) == << (v \div 256) % 256, v % 256 >>
\* BigEndian::read_u16(&b[0..2])
ReadU16BE(b) == b[1] * 256 + b[2]
\* `n as u16`
AsU16(n) == n % U16Mod
\* BytesMut::split_to(at): returns [0, at), self keeps [at, len)
SplitTo(buf, at) ==
    [ret |-> SubSeq(buf, 1, at), self |-> SubSeq(buf, at + 1, Len(buf))]
\* BytesMut::split_off(at): returns [at, len), self keeps [0, at)
SplitOff(buf, at) ==
    [ret |-> SubSeq(buf, at + 1, Len(buf)), self |-> SubSeq(buf, 1, at)]

(***************************************************************************)
(* Codec::encode(item, dst): appends to dst and always returns Ok(()).     *)
(***************************************************************************)
Encode(item, dst) ==
    CASE item.tag = "Ping" -> [ok |-> TRUE, dst |-> dst \o <<1>>]
      [] item.tag = "Pong" -> [ok |-> TRUE, dst |-> dst \o <<2>>]
      [] item.tag = "Data" ->
            [ok  |-> TRUE,
             dst |-> dst \o <<3>> \o PutU16BE(item.ch)
                         \o PutU16BE(AsU16(Len(item.data))) \o item.data]

(***************************************************************************)
(* Codec::decode(src).  kind is "none" for Ok(None), "frame" for           *)
(* Ok(Some(frame)) and "err" for Err; src is the buffer left behind.       *)
(***************************************************************************)
DecodeData(src) ==
    IF Len(src) < DataHeaderLen
    THEN [kind |-> "none", frame |-> Ping, src |-> src]
    ELSE LET app_id == ReadU16BE(SubSeq(src, 2, 3))
             length == ReadU16BE(SubSeq(src, 4, 5))
         IN  IF Len(src) < DataHeaderLen + length
             THEN [kind |-> "none", frame |-> Ping, src |-> src]
             ELSE LET body == SplitTo(src, DataHeaderLen).self
                      tail == SplitOff(body, length)
                  IN  [kind  |-> "frame",
                       frame |-> Data(app_id, tail.ret),
                       src   |-> tail.self]

\* mutation: an unknown tag is taken for an incomplete frame
DecodeUnknownTag_NeedMore(src) == [kind |-> "none", frame |-> Ping, src |-> src]

\* `_ => return Err(...)`: an unknown tag is an error, nothing is consumed
DecodeUnknownTag(src) == [kind |-> "err", frame |-> Ping, src |-> src]

Decode(src) ==
    IF src = <<>>
    THEN [kind |-> "none", frame |-> Ping, src |-> src]
    ELSE CASE src[1] = 1 -> [kind |-> "frame", frame |-> Ping, src |-> src]
           [] src[1] = 2 -> [kind |-> "frame", frame |-> Pong, src |-> src]
           [] src[1] = 3 -> DecodeData(src)
           [] OTHER      -> DecodeUnknownTag(src)

(***************************************************************************)
(* Inputs of the codec harness.                                            *)
(***************************************************************************)
CodecBytes == {0, 1, 3, 255}
CodecChannels == {0, 1, 259, 65535}
SeqsUpTo(S, n) == UNION {[1..k -> S] : k \in 0..n}
CodecPayloads == SeqsUpTo(CodecBytes, MaxCodecLen)
OversizedPayloads == {[i \in 1..(U16Mod + k) |-> 0] : k \in 0..MaxOver}
CodecFrames ==
    {Ping, Pong} \cup {Data(c, p) : c \in CodecChannels, p \in CodecPayloads}
OversizedFrames == {Data(1, p) : p \in OversizedPayloads}

(***************************************************************************)
(* Configuration consumed once at startup (State::from_configuration):     *)
(* the relay list and the peer directory.  relay3 is known to the          *)
(* directory but has no address, relay4 is not in the directory.           *)
(***************************************************************************)
ConfigRelays == <<"relay1", "relay2", "relay3", "relay4">>
ConfigPib ==
    [relay1 |-> [addresses |-> <<"127.0.0.1:9000", "127.0.0.1:9001">>, cert |-> "C1"],
     relay2 |-> [addresses |-> <<"10.0.0.2:9000">>, cert |-> "C2"],
     relay3 |-> [addresses |-> <<>>, cert |-> "C3"]]

VARIABLES
    \* ---- InnerState (state.rs 37-45)
    pib,          \* peer directory: id -> [addresses, cert]
    connections,  \* HashMap<String, Vec<Transport>>: peer id -> sequence of transport ids
    relays,       \* Vec<String>
    addresses,    \* Vec<LocalAddress>
    sockets,      \* HashMap<(String, u16), Sender<BytesMut>>: route key -> application socket id
    \* ---- the reactor (handle) and what has been spawned on it
    proc,         \* "running", "aborted" (a panic unwound the reactor thread) or
                  \* "spinning" (a task poll that never returns)
    ctl,          \* control socket: "none", "listening" or "ended"
    connecting,   \* bag of relay ids: connect futures spawned and not yet completed
    transports,   \* sequence of Transport records, in creation order
    apps,         \* sequence of application-socket records, in registration order
    dtasks,       \* bag of [sock, data]: send futures spawned by deliver_frame
    \* ---- history
    sendLog,      \* datagrams the bridging readers handed to State::send_frame
    \* ---- codec harness
    encItem,      \* the frame handed to encode
    encRes,       \* what encode returned: [ok, dst]
    feedRest,     \* encoded bytes not yet appended to the decode buffer
    decBuf,       \* the decode buffer (src)
    decOut,       \* what decode has returned so far, frames and ErrResult
    hpc,          \* "idle", "start", "feeding", "failed" or "encoded"
    \* ---- the aggregate lock, RwLock<InnerState> (state.rs 50, 65-75)
    held,         \* guards the reactor thread holds, oldest first: "read" / "write"
    lockOp,       \* the operation being run: [name, todo], todo its lock events to come
    lfault        \* TRUE once a lock was requested that can never be granted

stateVars == <<pib, connections, relays, addresses, sockets>>
taskVars == <<proc, ctl, connecting, transports, apps, dtasks>>
daemonVars == <<pib, connections, relays, addresses, sockets,
                proc, ctl, connecting, transports, apps, dtasks, sendLog>>
codecVars == <<encItem, encRes, feedRest, decBuf, decOut, hpc>>
lockVars == <<held, lockOp, lfault>>
vars == <<pib, connections, relays, addresses, sockets,
          proc, ctl, connecting, transports, apps, dtasks, sendLog,
          encItem, encRes, feedRest, decBuf, decOut, hpc,
          held, lockOp, lfault>>

(***************************************************************************)
(* State::from_configuration: empty tables, nothing spawned yet.           *)
(***************************************************************************)
from_configuration(config_pib, config_relays) ==
    /\ pib = config_pib
    /\ connections = <<>>
    /\ relays = config_relays
    /\ addresses = <<>>
    /\ sockets = <<>>
    /\ proc = "running"
    /\ ctl = "none"
    /\ connecting = EmptyBag
    /\ transports = <<>>
    /\ apps = <<>>
    /\ dtasks = EmptyBag
    /\ sendLog = <<>>

DaemonInit == from_configuration(ConfigPib, ConfigRelays)

\* the lock is free and no operation is being followed through its lock events
LockIdle ==
    /\ held = <<>>
    /\ lockOp = [name |-> "idle", todo |-> <<>>]
    /\ lfault = FALSE

(***************************************************************************)
(* The codec harness.                                                      *)
(***************************************************************************)
ErrResult == [tag |-> "Err", ch |-> 0, data |-> <<>>]

CodecInit ==
    /\ encItem \in CodecFrames \cup OversizedFrames
    /\ encRes = [ok |-> FALSE, dst |-> <<>>]
    /\ feedRest = <<>>
    /\ decBuf = <<>>
    /\ decOut = <<>>
    /\ hpc = "start"
    /\ DaemonInit
    /\ LockIdle

CodecIdle ==
    /\ encItem = Ping
    /\ encRes = [ok |-> FALSE, dst |-> <<>>]
    /\ feedRest = <<>>
    /\ decBuf = <<>>
    /\ decOut = <<>>
    /\ hpc = "idle"

\* encode into an empty write buffer; frames that fit the length field go on
\* to be fed to the decoder, oversized ones are only encoded
CodecEncode ==
    /\ hpc = "start"
    /\ encRes' = Encode(encItem, <<>>)
    /\ IF Len(encItem.data) < U16Mod
       THEN hpc' = "feeding" /\ feedRest' = encRes'.dst
       ELSE hpc' = "encoded" /\ feedRest' = <<>>
    /\ UNCHANGED <<encItem, decBuf, decOut, daemonVars, lockVars>>

\* the framed reader appends the next n bytes once decode has asked for more
CodecFeed(n) ==
    /\ hpc = "feeding"
    /\ Decode(decBuf).kind = "none"
    /\ n \in 1..Len(feedRest)
    /\ decBuf' = decBuf \o SubSeq(feedRest, 1, n)
    /\ feedRest' = SubSeq(feedRest, n + 1, Len(feedRest))
    /\ UNCHANGED <<encItem, encRes, decOut, hpc, daemonVars, lockVars>>

\* the framed reader calls decode while it does not ask for more data
CodecDecode ==
    /\ hpc = "feeding"
    /\ Len(decOut) < MaxDecodes
    /\ LET r == Decode(decBuf)
       IN  /\ r.kind # "none"
           /\ decBuf' = r.src
           /\ decOut' = Append(decOut, IF r.kind = "err" THEN ErrResult ELSE r.frame)
           /\ hpc' = IF r.kind = "err" THEN "failed" ELSE hpc
    /\ UNCHANGED <<encItem, encRes, feedRest, daemonVars, lockVars>>

CodecNext ==
    \/ CodecEncode
    \/ \E n \in 1..(DataHeaderLen + MaxCodecLen) : CodecFeed(n)
    \/ CodecDecode

SpecCodec == CodecInit /\ [][CodecNext]_vars

(***************************************************************************)
(* The daemon.                                                             *)
(***************************************************************************)
\* HashMap::get / insert on a map kept as a function over the keys present
Has(map, key) == key \in DOMAIN map

\* mutation: the insert rebuilds the map from the new entry alone
Insert_Forgetful(map, key, val) == [k \in {key} |-> val]

\* mutation: an entry that is present is kept, as with entry().or_insert()
Insert_KeepOld(map, key, val) ==
    IF key \in DOMAIN map THEN map ELSE [k \in DOMAIN map \cup {key} |-> IF k = key THEN val ELSE map[k]]

Insert(map, key, val) ==
    [k \in DOMAIN map \cup {key} |-> IF k = key THEN val ELSE map[k]]

\* the bag holding one copy of each element of a sequence
RECURSIVE SeqToBag(_)
SeqToBag(seq) ==
    IF seq = <<>> THEN EmptyBag ELSE SetToBag({Head(seq)}) (+) SeqToBag(Tail(seq))

\* ---- inputs the environment supplies
\* what Interface::get_all() may return
Lo == [name |-> "lo", loopback |-> TRUE, up |-> TRUE,
       addresses |-> <<[addr |-> "127.0.0.1", kind |-> "Ipv4"]>>]
Eth0 == [name |-> "eth0", loopback |-> FALSE, up |-> TRUE,
         addresses |-> <<[addr |-> "10.0.0.5", kind |-> "Ipv4"],
                         [addr |-> "none", kind |-> "Ipv6"],
                         [addr |-> "aa:bb", kind |-> "Link"]>>]
Wlan0 == [name |-> "wlan0", loopback |-> FALSE, up |-> FALSE,
          addresses |-> <<[addr |-> "10.0.1.7", kind |-> "Ipv4"]>>]
InterfaceScans ==
    {[ok |-> FALSE, interfaces |-> <<>>], [ok |-> TRUE, interfaces |-> <<Lo, Eth0, Wlan0>>]}
\* peers and channels named by control-channel registrations
RegPeers == {"relay1", "relay2"}
\* channel ids used by registrations and by frames on the wire
Channels == {1, 2}
\* datagrams the applications write to their sockets
AppData == {<<>>, <<104, 101, 108, 108, 111>>}
\* frames the remote peers write: Ping, an empty Data frame on each channel, and on
\* channel 1 a payload that is no frame tag (0) and one that is the Ping tag (1)
WireFrames ==
    {Ping} \cup {Data(c, <<>>) : c \in Channels} \cup {Data(1, <<0>>), Data(1, <<1>>)}

(***************************************************************************)
(* State::discover_addresses (state.rs 77-99).                             *)
(***************************************************************************)
LocalAddress(interface, internal_address, external_address) ==
    [interface |-> interface, internal_address |-> internal_address,
     external_address |-> external_address]

RECURSIVE KeepAddresses(_, _)
KeepAddresses(name, addrs) ==
    IF addrs = <<>> THEN <<>>
    ELSE LET address == Head(addrs)
             rest == KeepAddresses(name, Tail(addrs))
         IN  IF address.addr = "none" THEN rest
             ELSE IF address.kind = "Ipv4" \/ address.kind = "Ipv6"
                  THEN <<LocalAddress(name, address.addr, "none")>> \o rest
                  ELSE rest

RECURSIVE ScanInterfaces(_)
ScanInterfaces(interfaces) ==
    IF interfaces = <<>> THEN <<>>
    ELSE LET interface == Head(interfaces)
         IN  IF interface.loopback \/ ~interface.up
             THEN ScanInterfaces(Tail(interfaces))
             ELSE KeepAddresses(interface.name, interface.addresses)
                      \o ScanInterfaces(Tail(interfaces))

\* mutation: the list is cleared before the enumeration is looked at
discover_addresses_ClearFirst(scan) ==
    IF ~scan.ok THEN <<>> ELSE ScanInterfaces(scan.interfaces)

discover_addresses(scan) ==
    IF ~scan.ok THEN addresses ELSE ScanInterfaces(scan.interfaces)

(***************************************************************************)
(* State::lookup_peer and State::connect_to_relays (state.rs 101-126):     *)
(* one connect future is spawned for every relay the directory resolves.   *)
(***************************************************************************)
lookup_peer(id) ==
    IF Has(pib, id) /\ pib[id].addresses # <<>>
    THEN [some |-> TRUE, addr |-> pib[id].addresses[1], cert |-> pib[id].cert]
    ELSE [some |-> FALSE, addr |-> "none", cert |-> "none"]

RECURSIVE Resolvable(_)
Resolvable(ids) ==
    IF ids = <<>> THEN <<>>
    ELSE IF lookup_peer(Head(ids)).some
         THEN <<Head(ids)>> \o Resolvable(Tail(ids))
         ELSE Resolvable(Tail(ids))

connect_to_relays == connecting (+) SeqToBag(Resolvable(relays))

(***************************************************************************)
(* State::poll (state.rs 195-200): one driver tick.  open_ctl_socket       *)
(* (state.rs 128-149) binds the control path and panics ("expect") when    *)
(* the bind fails; the path stays bound once a bind has succeeded, so a    *)
(* later bind of the same path fails.                                      *)
(***************************************************************************)
Tick(scan, bindOk) ==
    /\ proc = "running"
    /\ addresses' = discover_addresses(scan)
    /\ connecting' = connect_to_relays
    /\ IF ctl = "none" /\ bindOk
       THEN ctl' = "listening" /\ proc' = proc
       ELSE ctl' = ctl /\ proc' = "aborted"
    /\ UNCHANGED <<pib, connections, relays, sockets, transports, apps, dtasks, sendLog, codecVars, lockVars>>

(***************************************************************************)
(* Transport::from_tls_stream (transport.rs 75-96): the outbound queue,    *)
(* its forwarding task (spawned, not yet polled) and the read loop.        *)
(***************************************************************************)
from_tls_stream(remote_id) ==
    [remote     |-> remote_id,
     sink       |-> <<>>,       \* frames in the outbound channel
     fwd        |-> "ready",    \* forwarding task: "ready" (to be polled) or "parked"
     wire       |-> <<>>,       \* bytes written to the connection
     inflight   |-> <<>>,       \* bytes the remote wrote, not yet read
     rdbuf      |-> <<>>,       \* the framed reader's buffer
     rloop      |-> "running",  \* read loop: "running" or "failed"
     sent       |-> <<>>,       \* history: frames the remote wrote
     dispatched |-> <<>>]       \* history: Data frames given to deliver_frame

(***************************************************************************)
(* State::add_connection (state.rs 151-155).                               *)
(***************************************************************************)
\* mutation: the new Transport is put in front of the peer's list
add_connection_Prepend(id, conn) ==
    Insert(connections, id,
           <<conn>> \o (IF Has(connections, id) THEN connections[id] ELSE <<>>))

add_connection(id, conn) ==
    Insert(connections, id,
           Append(IF Has(connections, id) THEN connections[id] ELSE <<>>, conn))

(***************************************************************************)
(* State::connect (state.rs 157-174), the completion of a spawned connect  *)
(* future: TCP connect and TLS handshake fail (logged by the caller) or    *)
(* yield a Transport that is registered under the relay id.                *)
(***************************************************************************)
ConnectDone(id, ok) ==
    /\ proc = "running"
    /\ BagIn(id, connecting)
    /\ connecting' = connecting (-) SetToBag({id})
    /\ IF ok
       THEN /\ transports' = Append(transports, from_tls_stream(id))
            /\ connections' = add_connection(id, Len(transports) + 1)
       ELSE UNCHANGED <<transports, connections>>
    /\ UNCHANGED <<pib, relays, addresses, sockets, proc, ctl, apps, dtasks, sendLog, codecVars, lockVars>>

(***************************************************************************)
(* The remote peer writes one encoded frame to its connection.             *)
(***************************************************************************)
RECURSIVE WireFrameCount(_)
WireFrameCount(n) ==
    IF n = 0 THEN 0 ELSE Len(transports[n].sent) + WireFrameCount(n - 1)

\* inputs supplied so far
Events == WireFrameCount(Len(transports)) + Len(apps) + Len(sendLog)

\* budget is the number of inputs the environment supplies in the run
PeerSendWithin(budget, t, frame) ==
    /\ proc = "running"
    /\ t \in 1..Len(transports)
    /\ Events < budget
    /\ transports' = [transports EXCEPT
            ![t].inflight = Encode(frame, @).dst,
            ![t].sent = Append(@, frame)]
    /\ UNCHANGED <<stateVars, proc, ctl, connecting, apps, dtasks, sendLog, codecVars, lockVars>>

PeerSend(t, frame) == PeerSendWithin(MaxEvents, t, frame)

(***************************************************************************)
(* State::deliver_frame (state.rs 184-188): on a route hit a send future   *)
(* on a clone of the route's sender is spawned; on a miss nothing is done. *)
(* The value is the bag of futures the call spawns.                        *)
(***************************************************************************)
deliver_frame(host_id, channel_id, data) ==
    IF Has(sockets, <<host_id, channel_id>>)
    THEN SetToBag({[sock |-> sockets[<<host_id, channel_id>>], data |-> data]})
    ELSE EmptyBag

(***************************************************************************)
(* The read loop, stream.for_each (transport.rs 84-93), over what the      *)
(* framed reader holds: for_each asks the stream for the next frame as     *)
(* soon as its closure has returned, and the framed reader calls decode    *)
(* until decode returns Ok(None), so one poll of the task handles every    *)
(* frame in the buffer.  An error ends the loop.  A Data frame goes to     *)
(* deliver_frame.  Ping and Pong are printed; decode left their byte in    *)
(* the buffer, so the stream yields the same frame again at once and the   *)
(* poll never returns ("spin").                                            *)
(***************************************************************************)
RECURSIVE ReadLoop(_, _, _, _)
ReadLoop(remote_id, rdbuf, spawned, dispatched) ==
    LET r == Decode(rdbuf)
        key == <<remote_id, r.frame.ch>>
    IN  CASE r.kind = "none" ->
               [end |-> "none", rdbuf |-> rdbuf, spawned |-> spawned, dispatched |-> dispatched]
          [] r.kind = "err" ->
               [end |-> "err", rdbuf |-> rdbuf, spawned |-> spawned, dispatched |-> dispatched]
          [] r.kind = "frame" /\ r.frame.tag = "Data" ->
               ReadLoop(remote_id, r.src,
                        spawned (+) deliver_frame(remote_id, r.frame.ch, r.frame.data),
                        Append(dispatched,
                               [ch |-> r.frame.ch, data |-> r.frame.data,
                                to |-> IF Has(sockets, key) THEN sockets[key] ELSE 0]))
          [] OTHER ->
               [end |-> "spin", rdbuf |-> rdbuf, spawned |-> spawned, dispatched |-> dispatched]

(***************************************************************************)
(* One poll of a Transport's read task (transport.rs 84-94), woken because *)
(* the connection is readable: the framed reader reads what has arrived    *)
(* and the loop runs over it.  Frames arrive whole here (PeerSend); how    *)
(* decode behaves when a frame is split over several reads is the subject  *)
(* of SpecCodec.                                                           *)
(***************************************************************************)
ReadLoopPoll(t) ==
    /\ proc = "running"
    /\ t \in 1..Len(transports)
    /\ transports[t].rloop = "running"
    /\ transports[t].inflight # <<>>
    /\ LET l == ReadLoop(transports[t].remote,
                         transports[t].rdbuf \o transports[t].inflight,
                         EmptyBag, transports[t].dispatched)
       IN  /\ transports' = [transports EXCEPT
                  ![t].inflight = <<>>,
                  ![t].rdbuf = l.rdbuf,
                  ![t].dispatched = l.dispatched,
                  ![t].rloop = IF l.end = "err" THEN "failed" ELSE @]
           /\ dtasks' = dtasks (+) l.spawned
           /\ proc' = IF l.end = "spin" THEN "spinning" ELSE proc
    /\ UNCHANGED <<stateVars, ctl, connecting, apps, sendLog, codecVars, lockVars>>

(***************************************************************************)
(* A send future spawned by deliver_frame is polled (Sender::send on a     *)
(* fresh clone of the route's sender): a clone that has nothing parked is  *)
(* always accepted by the channel, whatever the buffer holds, and the      *)
(* receiving task is woken.                                                *)
(***************************************************************************)
DeliverTaskPoll(task) ==
    /\ proc = "running"
    /\ BagIn(task, dtasks)
    /\ dtasks' = dtasks (-) SetToBag({task})
    /\ apps' = [apps EXCEPT ![task.sock].queue = Append(@, task.data),
                            ![task.sock].fwd = "ready"]
    /\ UNCHANGED <<stateVars, proc, ctl, connecting, transports, sendLog, codecVars, lockVars>>

(***************************************************************************)
(* The forwarding task of a route, receiver.forward(sink) (state.rs 138):  *)
(* writes the next queued payload to the application socket; with nothing  *)
(* queued it ends if every sender is gone and parks otherwise.             *)
(***************************************************************************)
SendersAlive(s) ==
    \/ \E k \in DOMAIN sockets : sockets[k] = s
    \/ \E task \in BagToSet(dtasks) : task.sock = s

RouteForwardPoll(s) ==
    /\ proc = "running"
    /\ s \in 1..Len(apps)
    /\ apps[s].fwd = "ready"
    /\ apps' = IF apps[s].queue # <<>>
               THEN [apps EXCEPT ![s].written = Append(@, Head(apps[s].queue)),
                                 ![s].queue = Tail(@)]
               ELSE [apps EXCEPT ![s].fwd = IF SendersAlive(s) THEN "parked" ELSE "done"]
    /\ UNCHANGED <<stateVars, proc, ctl, connecting, transports, dtasks, sendLog, codecVars, lockVars>>

(***************************************************************************)
(* The forwarding task of a Transport, receiver.forward(sink)              *)
(* (transport.rs 78): encodes the next queued frame onto the connection,   *)
(* and parks when the queue is empty.                                      *)
(***************************************************************************)
TransportForwardPoll(t) ==
    /\ proc = "running"
    /\ t \in 1..Len(transports)
    /\ transports[t].fwd = "ready"
    /\ transports' = IF transports[t].sink # <<>>
                     THEN [transports EXCEPT
                              ![t].wire = Encode(Head(transports[t].sink), @).dst,
                              ![t].sink = Tail(@)]
                     ELSE [transports EXCEPT ![t].fwd = "parked"]
    /\ UNCHANGED <<stateVars, proc, ctl, connecting, apps, dtasks, sendLog, codecVars, lockVars>>

(***************************************************************************)
(* The control channel's handler for one registration (state.rs 133-146).  *)
(* ok says whether the application socket could be created and connected   *)
(* to the given path; if not, `?` returns the error out of the closure and *)
(* the for_each over the control socket ends.                              *)
(***************************************************************************)
RegisterWithin(budget, host_id, channel_id, ok) ==
    /\ proc = "running"
    /\ ctl = "listening"
    /\ IF ~ok
       THEN /\ ctl' = "ended"
            /\ UNCHANGED <<apps, sockets>>
       ELSE /\ Events < budget
            /\ LET key == <<host_id, channel_id>>
                   woken == IF Has(sockets, key) /\ apps[sockets[key]].fwd = "parked"
                            THEN [apps EXCEPT ![sockets[key]].fwd = "ready"]
                            ELSE apps
               IN  /\ apps' = Append(woken,
                        [key     |-> key,
                         queue   |-> <<>>,      \* payloads in the route's channel
                         fwd     |-> "ready",   \* forwarding task: "ready", "parked", "done"
                         written |-> <<>>])     \* history: payloads written to the socket
                   /\ sockets' = Insert(sockets, key, Len(apps) + 1)
            /\ UNCHANGED ctl
    /\ UNCHANGED <<pib, connections, relays, addresses, proc, connecting, transports,
                   dtasks, sendLog, codecVars, lockVars>>

Register(host_id, channel_id, ok) == RegisterWithin(MaxEvents, host_id, channel_id, ok)

(***************************************************************************)
(* Transport::send_frame (transport.rs 98-101) returns the send future of  *)
(* a clone of the outbound sender; nothing is queued until it is polled.   *)
(***************************************************************************)
Transport_send_frame(t, channel_id, data) ==
    [sender |-> t, item |-> Data(channel_id, data)]

(***************************************************************************)
(* State::send_frame (state.rs 176-182): looks up the first Transport of   *)
(* the peer and calls its send_frame; the future that call returns is      *)
(* dropped at the end of the statement, never polled or spawned.  via is   *)
(* the Transport found, 0 when the peer has none.                          *)
(***************************************************************************)
PrimaryOf(host_id) ==
    IF Has(connections, host_id) /\ connections[host_id] # <<>>
    THEN Head(connections[host_id]) ELSE 0

\* mutation: the missing connection is unwrapped, which panics
State_send_frame_Unwrap(host_id, channel_id, data) ==
    /\ sendLog' = Append(sendLog,
            [host |-> host_id, ch |-> channel_id, data |-> data, via |-> PrimaryOf(host_id)])
    /\ proc' = IF PrimaryOf(host_id) = 0 THEN "aborted" ELSE proc
    /\ UNCHANGED <<stateVars, ctl, connecting, transports, apps, dtasks, codecVars, lockVars>>

State_send_frame(host_id, channel_id, data) ==
    /\ LET via == PrimaryOf(host_id)
           dropped == IF via # 0 THEN {Transport_send_frame(via, channel_id, data)} ELSE {}
       IN  sendLog' = Append(sendLog,
                [host |-> host_id, ch |-> channel_id, data |-> data, via |-> via])
    /\ UNCHANGED <<stateVars, taskVars, codecVars, lockVars>>

(***************************************************************************)
(* The bridging reader of an application socket (state.rs 141-145): each   *)
(* datagram read becomes one State::send_frame call.                       *)
(***************************************************************************)
AppReadWithin(budget, s, buf) ==
    /\ proc = "running"
    /\ s \in 1..Len(apps)
    /\ Events < budget
    /\ State_send_frame(apps[s].key[1], apps[s].key[2], buf)

AppRead(s, buf) == AppReadWithin(MaxEvents, s, buf)

DaemonNext ==
    \/ \E scan \in InterfaceScans, bindOk \in BOOLEAN : Tick(scan, bindOk)
    \/ \E id \in RegPeers, ok \in BOOLEAN : ConnectDone(id, ok)
    \/ \E t \in 1..Len(transports), frame \in WireFrames : PeerSend(t, frame)
    \/ \E t \in 1..Len(transports) : ReadLoopPoll(t)
    \/ \E task \in BagToSet(dtasks) : DeliverTaskPoll(task)
    \/ \E s \in 1..Len(apps) : RouteForwardPoll(s)
    \/ \E t \in 1..Len(transports) : TransportForwardPoll(t)
    \/ \E id \in RegPeers, c \in Channels, ok \in BOOLEAN : Register(id, c, ok)
    \/ \E s \in 1..Len(apps), buf \in AppData : AppRead(s, buf)

Init == DaemonInit /\ CodecIdle /\ LockIdle

Next == DaemonNext

Spec == Init /\ [][Next]_vars

(***************************************************************************)
(* Every task that is ready to run is eventually polled by the reactor.    *)
(***************************************************************************)
Polls ==
    \/ \E id \in RegPeers, ok \in BOOLEAN : ConnectDone(id, ok)
    \/ \E t \in 1..Len(transports) : ReadLoopPoll(t)
    \/ \E task \in BagToSet(dtasks) : DeliverTaskPoll(task)
    \/ \E s \in 1..Len(apps) : RouteForwardPoll(s)
    \/ \E t \in 1..Len(transports) : TransportForwardPoll(t)

FairSpec == Spec /\ WF_vars(Polls)

(***************************************************************************)
(* The daemon with one application that does not read its socket.  The     *)
(* peer relay1 is connected, routes (relay1, 1) and (relay1, 2) are        *)
(* registered once each, and the socket of route (relay1, 1) never becomes *)
(* writable, so its forwarding task (state.rs 138) writes nothing.  The    *)
(* peer sends on channel 1 until that route's queue holds ChannelBuffer    *)
(* payloads, and on channel 2 from then on; it sends a frame once the one  *)
(* before has been read, so that every read holds one frame.               *)
(***************************************************************************)
FloodPeer == "relay1"
StalledChannel == 1
FloodFrames == {Data(StalledChannel, <<>>), Data(2, <<>>), Data(2, <<1>>)}
\* inputs of a run: the two registrations, the frames that fill the queue, and
\* MaxFloodExtra frames after that
FloodBudget == 2 + ChannelBuffer + MaxFloodExtra

Stalled(s) == Has(sockets, <<FloodPeer, StalledChannel>>) /\ sockets[<<FloodPeer, StalledChannel>>] = s
QueueFull ==
    /\ Has(sockets, <<FloodPeer, StalledChannel>>)
    /\ Len(apps[sockets[<<FloodPeer, StalledChannel>>]].queue) >= ChannelBuffer

FloodTick == \E scan \in InterfaceScans : scan.ok /\ ctl = "none" /\ Tick(scan, TRUE)

FloodConnect == \E id \in RegPeers : ConnectDone(id, id = FloodPeer)

FloodRegister ==
    \E c \in Channels :
        /\ ~Has(sockets, <<FloodPeer, c>>)
        /\ RegisterWithin(FloodBudget, FloodPeer, c, TRUE)

FloodSend ==
    \E frame \in FloodFrames :
        /\ \A c \in Channels : Has(sockets, <<FloodPeer, c>>)
        /\ (frame.ch = StalledChannel) <=> ~QueueFull
        /\ \A t \in 1..Len(transports) : transports[t].inflight = <<>>
        /\ PeerSendWithin(FloodBudget, 1, frame)

FloodRead == \E t \in 1..Len(transports) : ReadLoopPoll(t)

FloodDeliver == \E task \in BagToSet(dtasks) : DeliverTaskPoll(task)

FloodForward == \E s \in 1..Len(apps) : ~Stalled(s) /\ RouteForwardPoll(s)

FloodPolls == FloodConnect \/ FloodRead \/ FloodDeliver \/ FloodForward

FloodNext ==
    \/ FloodTick
    \/ FloodConnect
    \/ FloodRegister
    \/ FloodSend
    \/ FloodRead
    \/ FloodDeliver
    \/ FloodForward

FloodSpec == Init /\ [][FloodNext]_vars /\ WF_vars(FloodPolls)

(***************************************************************************)
(* The daemon configured with a relay list that names relay1 twice, so     *)
(* that one tick spawns two connects to the same peer and the peer can     *)
(* have more than one Transport.  Registrations name relay1 only.          *)
(***************************************************************************)
RaceRelays == <<"relay1", "relay1">>
RacePeer == "relay1"
\* frames relay1 sends: an empty payload, and a payload that is no frame tag
RaceFrames == {Data(1, <<>>), Data(1, <<0>>)}

RaceInit == from_configuration(ConfigPib, RaceRelays) /\ CodecIdle /\ LockIdle

RaceNext ==
    \/ \E scan \in InterfaceScans, bindOk \in BOOLEAN : Tick(scan, bindOk)
    \/ \E ok \in BOOLEAN : ConnectDone(RacePeer, ok)
    \/ \E t \in 1..Len(transports), frame \in RaceFrames :
          PeerSendWithin(MaxRaceEvents, t, frame)
    \/ \E t \in 1..Len(transports) : ReadLoopPoll(t)
    \/ \E task \in BagToSet(dtasks) : DeliverTaskPoll(task)
    \/ \E s \in 1..Len(apps) : RouteForwardPoll(s)
    \/ \E t \in 1..Len(transports) : TransportForwardPoll(t)
    \/ \E c \in Channels, ok \in BOOLEAN : RegisterWithin(MaxRaceEvents, RacePeer, c, ok)
    \/ \E s \in 1..Len(apps), buf \in AppData : AppReadWithin(MaxRaceEvents, s, buf)

RaceSpec == RaceInit /\ [][RaceNext]_vars

(***************************************************************************)
(* The aggregate lock.  State::read and State::write (state.rs 65-75)      *)
(* take the RwLock and return a guard; the lock is released when the guard *)
(* is dropped: at the end of the statement for a temporary, at the end of  *)
(* the `for` loop or of the `if let` for a temporary in its head, at the   *)
(* end of the function for a `let`.  Every operation below is the sequence *)
(* of lock events of one function, in program order: "read" and "write"    *)
(* request a guard, "drop" releases the guard taken last.  All operations  *)
(* run on the one thread of the reactor and none keeps a guard when it     *)
(* returns, so operations follow each other in any order but do not        *)
(* overlap.                                                                *)
(***************************************************************************)
\* a statement that takes a read guard as a temporary and takes no other lock
ReadOnce == <<"read", "drop">>
\* State::handle (state.rs 69-71)
Locks_handle == ReadOnce
\* State::discover_addresses: `let mut state = self.write()`, held to the return
Locks_discover_addresses == <<"write", "drop">>
\* State::lookup_peer: self.read().pib.get_peer(id)...
Locks_lookup_peer == ReadOnce
\* State::connect up to the future it returns: self.read().handle.clone()
Locks_connect == ReadOnce

\* State::connect_to_relays: the guard of `&self.read().relays` lives for the loop;
\* inside, lookup_peer, and for a resolvable relay connect and handle.spawn
RECURSIVE Locks_relay_loop(_)
Locks_relay_loop(ids) ==
    IF ids = <<>> THEN <<>>
    ELSE Locks_lookup_peer
             \o (IF lookup_peer(Head(ids)).some THEN Locks_connect \o ReadOnce ELSE <<>>)
             \o Locks_relay_loop(Tail(ids))

Locks_connect_to_relays == <<"read">> \o Locks_relay_loop(relays) \o <<"drop">>

\* State::open_ctl_socket: the bind statement holds `&self.read().handle`, then
\* self.read().handle.spawn(done)
Locks_open_ctl_socket == ReadOnce \o ReadOnce

\* State::poll
Locks_poll == Locks_discover_addresses \o Locks_connect_to_relays \o Locks_open_ctl_socket

\* the registration closure (state.rs 133-146): unbound(&state.read().handle)?, and
\* if the socket opens: spawn of the forwarder, the insert under write(), spawn of
\* the reader
Locks_register(ok) ==
    ReadOnce \o (IF ok THEN ReadOnce \o <<"write", "drop">> \o ReadOnce ELSE <<>>)

\* State::add_connection: self.write().connections.entry(id)...push(conn)
Locks_add_connection == <<"write", "drop">>

\* the completion of State::connect (state.rs 169-173): from_tls_stream calls
\* state.handle() twice to spawn its tasks, then add_connection
Locks_connected == Locks_handle \o Locks_handle \o Locks_add_connection

\* State::send_frame: the guard of `self.read().connections.get(..)` lives for the
\* `if let`; Transport::send_frame takes no lock
Locks_send_frame == <<"read", "drop">>

\* mutation: deliver_frame records the delivery under the write lock inside the `if let`
Locks_deliver_frame_Write(hit) ==
    <<"read">> \o (IF hit THEN <<"write", "drop">> ELSE <<>>) \o <<"drop">>

\* State::deliver_frame: the guard of `self.read().sockets.get(..)` lives for the
\* `if let`; on a hit self.read().handle.spawn(..) takes a second read guard
Locks_deliver_frame(hit) ==
    <<"read">> \o (IF hit THEN ReadOnce ELSE <<>>) \o <<"drop">>

LockOps ==
    {[name |-> "poll", todo |-> Locks_poll],
     [name |-> "connected", todo |-> Locks_connected],
     [name |-> "send_frame", todo |-> Locks_send_frame]}
        \cup {[name |-> "register", todo |-> Locks_register(ok)] : ok \in BOOLEAN}
        \cup {[name |-> "deliver_frame", todo |-> Locks_deliver_frame(hit)] : hit \in BOOLEAN}

\* the reactor runs the next operation
LockBegin(op) ==
    /\ lockOp.todo = <<>>
    /\ ~lfault
    /\ lockOp' = op
    /\ UNCHANGED <<held, lfault, daemonVars, codecVars>>

\* RwLock::read: granted unless a writer holds the lock
LockRead ==
    /\ lockOp.todo # <<>> /\ Head(lockOp.todo) = "read"
    /\ ~lfault
    /\ IF \E i \in 1..Len(held) : held[i] = "write"
       THEN lfault' = TRUE /\ UNCHANGED <<held, lockOp>>
       ELSE /\ held' = Append(held, "read")
            /\ lockOp' = [lockOp EXCEPT !.todo = Tail(@)]
            /\ UNCHANGED lfault
    /\ UNCHANGED <<daemonVars, codecVars>>

\* RwLock::write: granted only when no guard is held; a request by the thread that
\* holds a guard itself can never be granted
LockWrite ==
    /\ lockOp.todo # <<>> /\ Head(lockOp.todo) = "write"
    /\ ~lfault
    /\ IF held # <<>>
       THEN lfault' = TRUE /\ UNCHANGED <<held, lockOp>>
       ELSE /\ held' = Append(held, "write")
            /\ lockOp' = [lockOp EXCEPT !.todo = Tail(@)]
            /\ UNCHANGED lfault
    /\ UNCHANGED <<daemonVars, codecVars>>

\* a guard goes out of scope
LockDrop ==
    /\ lockOp.todo # <<>> /\ Head(lockOp.todo) = "drop"
    /\ ~lfault
    /\ held' = SubSeq(held, 1, Len(held) - 1)
    /\ lockOp' = [lockOp EXCEPT !.todo = Tail(@)]
    /\ UNCHANGED <<lfault, daemonVars, codecVars>>

\* the peer directory of the configuration: any part of ConfigPib
LockDirectories == {[id \in ids |-> ConfigPib[id]] : ids \in SUBSET DOMAIN ConfigPib}

LockInit ==
    /\ \E directory \in LockDirectories : from_configuration(directory, ConfigRelays)
    /\ CodecIdle
    /\ LockIdle

LockNext ==
    \/ \E op \in LockOps : LockBegin(op)
    \/ LockRead
    \/ LockWrite
    \/ LockDrop

LockSpec == LockInit /\ [][LockNext]_vars

(***************************************************************************)
(* Helpers of the properties.                                              *)
(***************************************************************************)
Last(seq) == seq[Len(seq)]

RECURSIVE EncodeAll(_)
EncodeAll(frames) ==
    IF frames = <<>> THEN <<>>
    ELSE Encode(Head(frames), <<>>).dst \o EncodeAll(Tail(frames))

\* the Data frames State::send_frame was given while t was the peer's primary Transport
RECURSIVE HandedTo(_, _)
HandedTo(t, log) ==
    IF log = <<>> THEN <<>>
    ELSE (IF Head(log).via = t THEN <<Data(Head(log).ch, Head(log).data)>> ELSE <<>>)
             \o HandedTo(t, Tail(log))

\* the payloads of the Data frames of channel c among frames
RECURSIVE DataPayloads(_, _)
DataPayloads(frames, c) ==
    IF frames = <<>> THEN <<>>
    ELSE (IF Head(frames).tag = "Data" /\ Head(frames).ch = c
          THEN <<Head(frames).data>> ELSE <<>>)
             \o DataPayloads(Tail(frames), c)

\* a is b with some elements left out, order kept
RECURSIVE IsSubseq(_, _)
IsSubseq(a, b) ==
    IF a = <<>> THEN TRUE
    ELSE IF b = <<>> THEN FALSE
    ELSE IF Head(a) = Head(b) THEN IsSubseq(Tail(a), Tail(b))
    ELSE IsSubseq(a, Tail(b))

RECURSIVE CountIn(_, _)
CountIn(seq, x) ==
    IF seq = <<>> THEN 0
    ELSE (IF Head(seq) = x THEN 1 ELSE 0) + CountIn(Tail(seq), x)

\* payloads deliver_frame was given for a registered route bound to socket s
RECURSIVE DeliveredTo(_, _)
DeliveredTo(s, entries) ==
    IF entries = <<>> THEN <<>>
    ELSE (IF Head(entries).to = s THEN <<Head(entries).data>> ELSE <<>>)
             \o DeliveredTo(s, Tail(entries))

RECURSIVE AllDeliveredTo(_, _)
AllDeliveredTo(s, n) ==
    IF n = 0 THEN <<>>
    ELSE AllDeliveredTo(s, n - 1) \o DeliveredTo(s, transports[n].dispatched)

TaskCount(s, d) == CopiesIn([sock |-> s, data |-> d], dtasks)
HasTask(s) == \E task \in BagToSet(dtasks) : task.sock = s
SeenPayloads ==
    {task.data : task \in BagToSet(dtasks)}
        \cup UNION {{apps[s].queue[i] : i \in 1..Len(apps[s].queue)} : s \in 1..Len(apps)}
        \cup UNION {{apps[s].written[i] : i \in 1..Len(apps[s].written)} : s \in 1..Len(apps)}
        \cup UNION {{transports[t].dispatched[i].data : i \in 1..Len(transports[t].dispatched)}
                        : t \in 1..Len(transports)}

BadTagAtHead(buf) == buf # <<>> /\ buf[1] \notin {1, 2, 3}
\* first bytes that are no frame tag
BadTags == {0, 4, 255}

(***************************************************************************)
(* C1  End-to-end send path: every datagram State::send_frame is given     *)
(* for a peer that has a Transport is placed, as a Data frame, in that     *)
(* Transport's outbound queue, from where the forwarding task writes its   *)
(* encoding to the connection: what the connection has received, followed  *)
(* by what is still queued, is the encoding of those frames in order.      *)
(***************************************************************************)
C1_SendPath ==
    \A t \in 1..Len(transports) :
        transports[t].wire \o EncodeAll(transports[t].sink)
            = EncodeAll(HandedTo(t, sendLog))

(***************************************************************************)
(* C4  Wire order is preserved: what has been written to an application    *)
(* socket is, in order, payloads of the Data frames the peer of its route  *)
(* sent on the route's channel.                                            *)
(***************************************************************************)
C4_WireOrder ==
    \A s \in 1..Len(apps) :
        \/ apps[s].written = <<>>
        \/ \E t \in 1..Len(transports) :
              /\ transports[t].remote = apps[s].key[1]
              /\ IsSubseq(apps[s].written,
                          DataPayloads(transports[t].sent, apps[s].key[2]))

(***************************************************************************)
(* C5  Unknown tag: decode answers a buffer whose first byte is not 1, 2   *)
(* or 3 with an error, never with "need more data", and consumes nothing.  *)
(* A Transport whose buffer is headed by such a byte has its read loop     *)
(* ended.  Once ended the loop stays ended and nothing more is delivered   *)
(* from that Transport.  The step that ends it leaves the process running  *)
(* and every other Transport as it was.                                    *)
(***************************************************************************)
C5_DecodeRejects ==
    /\ \A tag \in BadTags, rest \in CodecPayloads :
          Decode(<<tag>> \o rest) = [kind |-> "err", frame |-> Ping, src |-> <<tag>> \o rest]
    /\ \A t \in 1..Len(transports) :
          BadTagAtHead(transports[t].rdbuf) =>
              /\ Decode(transports[t].rdbuf).kind = "err"
              /\ transports[t].rloop = "failed"

C5_LoopEnds ==
    \A t \in 1..Len(transports) :
        /\ transports[t].rloop = "failed" =>
              /\ transports'[t].rloop = "failed"
              /\ transports'[t].dispatched = transports[t].dispatched
              /\ transports'[t].rdbuf = transports[t].rdbuf
        /\ (transports[t].rloop = "running" /\ transports'[t].rloop = "failed") =>
              /\ BadTagAtHead(transports'[t].rdbuf)
              /\ proc' = proc
              /\ \A u \in 1..Len(transports) : u # t => transports'[u] = transports[u]

C5_UnknownTag == []C5_DecodeRejects /\ [][C5_LoopEnds]_vars

\* one Transport has ended on an unknown tag with bytes of the peer still unread,
\* another one is running and has delivered
C5_Witness ==
    \E t, u \in 1..Len(transports) :
        /\ t # u
        /\ transports[t].rloop = "failed"
        /\ BadTagAtHead(transports[t].rdbuf)
        /\ transports[u].rloop = "running"
        /\ transports[u].dispatched # <<>>

(***************************************************************************)
(* C7  Route delivery.  Each payload given to deliver_frame for a          *)
(* registered route is, exactly once, in a spawned send, in the queue of   *)
(* the socket bound to that route or written to that socket, and nothing   *)
(* else is there; a spawned send is eventually polled and then enqueues    *)
(* (at the latest when the process terminates, the claim read in the       *)
(* code's favour).  A step in which deliver_frame is called for            *)
(* unregistered routes only changes no table, spawns nothing, enqueues     *)
(* nothing and raises nothing.                                             *)
(***************************************************************************)
C7_ExactlyOnce ==
    \A s \in 1..Len(apps) : \A d \in SeenPayloads :
        CountIn(AllDeliveredTo(s, Len(transports)), d)
            = TaskCount(s, d) + CountIn(apps[s].queue, d) + CountIn(apps[s].written, d)

C7_MissIsNoop ==
    \A t \in 1..Len(transports) :
        (/\ Len(transports'[t].dispatched) > Len(transports[t].dispatched)
         /\ \A i \in (Len(transports[t].dispatched) + 1)..Len(transports'[t].dispatched) :
                transports'[t].dispatched[i].to = 0)
            => /\ UNCHANGED <<pib, connections, relays, addresses, sockets>>
               /\ UNCHANGED <<apps, dtasks, ctl>>
               /\ proc' # "aborted"

C7_Enqueued ==
    \A s \in 1..MaxEvents : HasTask(s) ~> (~HasTask(s) \/ proc = "aborted")

C7_RouteDelivery == []C7_ExactlyOnce /\ [][C7_MissIsNoop]_vars /\ C7_Enqueued

(***************************************************************************)
(* C8  send_frame to a peer without a Transport is a silent no-op: the     *)
(* call changes nothing but the history of calls; no table, no queue, no   *)
(* task and not the state of the process.                                  *)
(***************************************************************************)
C8_MissStep ==
    (Len(sendLog') > Len(sendLog) /\ Last(sendLog').via = 0)
        => /\ UNCHANGED <<pib, connections, relays, addresses, sockets>>
           /\ UNCHANGED <<proc, ctl, connecting, transports, apps, dtasks>>

C8_SendMissNoop == [][C8_MissStep]_vars

\* send_frame was called for a peer without a Transport while another peer has one
C8_Witness ==
    /\ sendLog # <<>>
    /\ Last(sendLog).via = 0
    /\ transports # <<>>
    /\ proc = "running"

(***************************************************************************)
(* C9  No lost registrations: the RouteTable holds exactly the keys of the *)
(* registrations processed so far, each bound to the socket of the latest  *)
(* registration of that key.                                               *)
(***************************************************************************)
C9_NoLostRegistrations ==
    /\ DOMAIN sockets = {apps[s].key : s \in 1..Len(apps)}
    /\ \A k \in DOMAIN sockets :
          /\ sockets[k] \in 1..Len(apps)
          /\ apps[sockets[k]].key = k
          /\ \A s \in 1..Len(apps) : apps[s].key = k => s <= sockets[k]

\* two registrations of distinct keys have been processed beside a connection
C9_Witness ==
    /\ Cardinality(DOMAIN sockets) = 2
    /\ Len(apps) = 2
    /\ connections # <<>>
    /\ addresses # <<>>

(***************************************************************************)
(* C10  The process terminates only on aggregate-lock failure.  No step of *)
(* the model fails to take the lock, so the process never aborts.          *)
(***************************************************************************)
C10_NeverAborts == proc # "aborted"

(***************************************************************************)
(* C2  Codec round trip: decoding a buffer that holds exactly              *)
(* encode(Data(ch, p)), p of at most 65535 bytes, returns Data(ch, p).     *)
(* In the harness the first frame decode returns is decoded from the whole *)
(* encoding, so it must be the frame that was encoded.                     *)
(***************************************************************************)
C2_RoundTrip ==
    (encItem.tag = "Data" /\ Len(encItem.data) < U16Mod /\ Len(decOut) >= 1)
        => decOut[1] = encItem

(***************************************************************************)
(* C3  Chunked decoding: while bytes of the frame are still missing decode *)
(* has returned nothing and consumed nothing; over the whole feed it       *)
(* returns exactly one frame, never a second one and never an error.       *)
(***************************************************************************)
C3_ChunkedDecode ==
    hpc \in {"feeding", "failed"} =>
        /\ feedRest # <<>> => (decOut = <<>> /\ decBuf \o feedRest = encRes.dst)
        /\ Len(decOut) <= 1
        /\ \A i \in 1..Len(decOut) : decOut[i] # ErrResult

(***************************************************************************)
(* C6  Oversized payload policy: for a payload of 65536 bytes or more      *)
(* encode either fails and writes nothing, or the 16-bit length field it   *)
(* wrote equals the number of payload bytes that follow it.                *)
(***************************************************************************)
C6_OversizedPolicy ==
    (hpc # "start" /\ encItem.tag = "Data" /\ Len(encItem.data) >= U16Mod) =>
        \/ ~encRes.ok /\ encRes.dst = <<>>
        \/ /\ encRes.ok
           /\ Len(encRes.dst) >= DataHeaderLen
           /\ ReadU16BE(SubSeq(encRes.dst, 4, 5)) = Len(encRes.dst) - DataHeaderLen

(***************************************************************************)
(* C11  Per-channel isolation under backpressure.  While the queue of      *)
(* route (relay1, 1) is full the read loop of the Transport is not         *)
(* blocked: whenever bytes have arrived it can be polled.  The Data frames *)
(* that arrive for route (relay1, 2) are then eventually enqueued on that  *)
(* route's queue: what its socket has been sent or has queued becomes the  *)
(* sequence of payloads the peer sent on channel 2.                        *)
(***************************************************************************)
C11_NotBlocked ==
    \A t \in 1..Len(transports) :
        (/\ QueueFull
         /\ proc = "running"
         /\ transports[t].rloop = "running"
         /\ transports[t].inflight # <<>>) => ENABLED ReadLoopPoll(t)

ReceivedOn(c) ==
    IF Has(sockets, <<FloodPeer, c>>)
    THEN apps[sockets[<<FloodPeer, c>>]].written \o apps[sockets[<<FloodPeer, c>>]].queue
    ELSE <<>>

C11_OtherRouteServed ==
    QueueFull ~>
        \A t \in 1..Len(transports) : DataPayloads(transports[t].sent, 2) = ReceivedOn(2)

C11_Isolation == []C11_NotBlocked /\ C11_OtherRouteServed

(***************************************************************************)
(* C12  Relay reconnection by reconciliation.  A driver tick issues, for   *)
(* every relay id, one connect attempt per entry of the relay list if the  *)
(* directory resolves the id and none otherwise.  A tick that comes after  *)
(* a relay's earlier attempt has failed leaves the process running, so     *)
(* that the attempt it issues can complete and register a Transport.       *)
(***************************************************************************)
RelayIds == {relays[i] : i \in 1..Len(relays)}

TickStep == \E id \in RelayIds : CopiesIn(id, connecting') > CopiesIn(id, connecting)

\* a tick has run before, and the attempt it made for some relay has failed
RetryCase ==
    /\ ctl # "none"
    /\ \E id \in RelayIds :
          /\ id \in DOMAIN pib /\ pib[id].addresses # <<>>
          /\ ~Has(connections, id)
          /\ ~BagIn(id, connecting)

C12_TickStep ==
    TickStep =>
        /\ \A id \in RelayIds :
              CopiesIn(id, connecting') = CopiesIn(id, connecting)
                  + (IF id \in DOMAIN pib /\ pib[id].addresses # <<>>
                     THEN CountIn(relays, id) ELSE 0)
        /\ RetryCase => proc' = "running"

C12_Reconnect == [][C12_TickStep]_vars

(***************************************************************************)
(* C13  The ConnectionTable is append-only with a stable primary.  In      *)
(* every state a peer's list is the Transports created for that peer, in   *)
(* the order of their creation, whether their connections have ended or    *)
(* not, and every State::send_frame call that found a Transport found the  *)
(* first one created for the peer.  In every step each list keeps what it  *)
(* held as a prefix, at most one list grows, and it grows by one entry.    *)
(***************************************************************************)
RECURSIVE TransportsOf(_, _)
TransportsOf(id, n) ==
    IF n = 0 THEN <<>>
    ELSE TransportsOf(id, n - 1) \o (IF transports[n].remote = id THEN <<n>> ELSE <<>>)

C13_Table ==
    /\ \A id \in DOMAIN connections : connections[id] = TransportsOf(id, Len(transports))
    /\ \A t \in 1..Len(transports) : Has(connections, transports[t].remote)
    /\ \A i \in 1..Len(sendLog) :
          \/ sendLog[i].via = 0
          \/ sendLog[i].via = Head(TransportsOf(sendLog[i].host, Len(transports)))

C13_AppendOnly ==
    /\ \A id \in DOMAIN connections :
          /\ Has(connections', id)
          /\ Len(connections'[id]) >= Len(connections[id])
          /\ SubSeq(connections'[id], 1, Len(connections[id])) = connections[id]
    /\ LET grown == {id \in DOMAIN connections' :
                        ~Has(connections, id) \/ connections'[id] # connections[id]}
       IN  /\ Cardinality(grown) <= 1
           /\ \A id \in grown :
                 Len(connections'[id])
                     = 1 + (IF Has(connections, id) THEN Len(connections[id]) ELSE 0)

C13_StablePrimary == []C13_Table /\ [][C13_AppendOnly]_vars

\* relay1 has two Transports, the read loop of the first has ended, and the latest
\* State::send_frame call for relay1 still went to the first
C13_Witness ==
    /\ Has(connections, RacePeer)
    /\ Len(connections[RacePeer]) = 2
    /\ transports[connections[RacePeer][1]].rloop = "failed"
    /\ sendLog # <<>>
    /\ Last(sendLog).host = RacePeer
    /\ Last(sendLog).via = connections[RacePeer][1]

(***************************************************************************)
(* C14  Re-registration overwrites.  The RouteTable maps a key to one      *)
(* socket.  A step that processes a registration binds its key to the new  *)
(* application socket, whose queue is empty, whether the key was present   *)
(* or not, and leaves every other key's entry as it was; no other step     *)
(* changes the table.  Every send that deliver_frame spawns is bound to    *)
(* the socket the table holds for its key at that moment, so after an      *)
(* overwrite nothing more is sent to the socket that was replaced.         *)
(***************************************************************************)
C14_RegisterStep ==
    IF Len(apps') > Len(apps)
    THEN LET new == Len(apps')
             key == apps'[new].key
         IN  /\ new = Len(apps) + 1
             /\ apps'[new].queue = <<>>
             /\ DOMAIN sockets' = DOMAIN sockets \cup {key}
             /\ sockets'[key] = new
             /\ \A k \in DOMAIN sockets : k # key => sockets'[k] = sockets[k]
    ELSE sockets' = sockets

C14_DeliverStep ==
    \A task \in BagToSet(dtasks') :
        CopiesIn(task, dtasks') > CopiesIn(task, dtasks) =>
            /\ Has(sockets, apps[task.sock].key)
            /\ sockets[apps[task.sock].key] = task.sock

C14_Overwrite == [][C14_RegisterStep /\ C14_DeliverStep]_vars

\* a key was registered twice, a frame that arrived after the overwrite has been
\* written to the new socket, and the replaced socket has been sent nothing
C14_Witness ==
    /\ Len(apps) = 2
    /\ apps[1].key = apps[2].key
    /\ apps[2].written # <<>>
    /\ apps[1].written = <<>> /\ apps[1].queue = <<>>
    /\ \E t \in 1..Len(transports) :
          \E i \in 1..Len(transports[t].dispatched) : transports[t].dispatched[i].to = 2

(***************************************************************************)
(* C15  discover_addresses is all-or-nothing on the address cache and      *)
(* touches nothing else.  For each enumeration the call either leaves the  *)
(* list as it was (enumeration failed) or makes it exactly the IPv4/IPv6   *)
(* addresses of the interfaces that are up and not loopback, in order,     *)
(* each without external address (enumeration succeeded).  The step that   *)
(* runs it changes the list to nothing else, and leaves the                *)
(* ConnectionTable, the RouteTable and the relay list unchanged.           *)
(***************************************************************************)
\* the addresses the enumeration <<Lo, Eth0, Wlan0>> must yield
UsableAddresses ==
    <<[interface |-> "eth0", internal_address |-> "10.0.0.5", external_address |-> "none"]>>

\* an interface that is up, with an IPv6 and an IPv4 address
Tun0 == [name |-> "tun0", loopback |-> FALSE, up |-> TRUE,
         addresses |-> <<[addr |-> "fe80::1", kind |-> "Ipv6"],
                         [addr |-> "10.9.9.9", kind |-> "Ipv4"]>>]

C15_Result ==
    /\ \A scan \in InterfaceScans :
          discover_addresses(scan) = IF scan.ok THEN UsableAddresses ELSE addresses
    /\ discover_addresses([ok |-> TRUE, interfaces |-> <<Wlan0, Tun0, Lo, Eth0>>])
          = <<[interface |-> "tun0", internal_address |-> "fe80::1", external_address |-> "none"],
              [interface |-> "tun0", internal_address |-> "10.9.9.9", external_address |-> "none"]>>
                \o UsableAddresses
    /\ discover_addresses([ok |-> TRUE, interfaces |-> <<>>]) = <<>>

C15_Step ==
    /\ addresses' \in {addresses, UsableAddresses}
    /\ TickStep => UNCHANGED <<connections, sockets, relays>>

C15_DiscoverAddresses == []C15_Result /\ [][C15_Step]_vars

\* a second tick has run on a cache that was filled by the first
C15_Witness ==
    /\ addresses = UsableAddresses
    /\ proc = "aborted"
    /\ ctl = "listening"
    /\ connections # <<>>
    /\ sockets # <<>>

(***************************************************************************)
(* C16  decode consumes exactly the bytes of the frame it returns: after   *)
(* the first frame has been returned, the bytes that were fed are the      *)
(* encoding of that frame followed by what the buffer still holds.  A      *)
(* frame that follows on the wire is then decoded next: a buffer holding   *)
(* the encodings of two frames yields the first and keeps the encoding of  *)
(* the second.                                                             *)
(***************************************************************************)
C16_FirstFrame ==
    encRes.dst = Encode(decOut[1], <<>>).dst \o decBuf \o feedRest

C16_NextFrameKept ==
    \A f \in {Ping, Pong, Data(1, <<>>), Data(1, <<255>>)} :
        Decode(encRes.dst \o Encode(f, <<>>).dst)
            = [kind |-> "frame", frame |-> encItem, src |-> Encode(f, <<>>).dst]

C16_ConsumesFrame ==
    (hpc = "feeding" /\ Len(decOut) = 1) => (C16_FirstFrame /\ C16_NextFrameKept)

(***************************************************************************)
(* C17  Transport write-side backpressure.  The outbound queue of a        *)
(* Transport never holds more than ChannelBuffer frames.  A send_frame on  *)
(* a Transport can be kept from enqueuing only by a full queue, which      *)
(* suspends it, or by a forwarding task that has ended, which fails it;    *)
(* the forwarding task of the model never ends, so whenever the queue is   *)
(* not full every frame given to send_frame has been enqueued: the frames  *)
(* given so far are, in the order of the calls, those written to the       *)
(* connection followed by those in the queue.                              *)
(***************************************************************************)
C17_Bounded == \A t \in 1..Len(transports) : Len(transports[t].sink) <= ChannelBuffer

C17_Enqueued ==
    \A t \in 1..Len(transports) :
        Len(transports[t].sink) < ChannelBuffer =>
            LET given == HandedTo(t, sendLog)
            IN  \E n \in 0..Len(given) :
                    /\ transports[t].wire = EncodeAll(SubSeq(given, 1, n))
                    /\ transports[t].sink = SubSeq(given, n + 1, Len(given))

C17_WriteSide == C17_Bounded /\ C17_Enqueued

(***************************************************************************)
(* C18  A failed registration does not disable the control channel.  A     *)
(* step that binds no new application socket, as the handling of a         *)
(* registration whose socket cannot be opened, leaves the RouteTable as it *)
(* was; and no step takes the control channel out of service, so that a    *)
(* later registration is still received and processed.                     *)
(***************************************************************************)
C18_Step ==
    /\ Len(apps') = Len(apps) => sockets' = sockets
    /\ ctl = "listening" => ctl' = "listening"

C18_ControlStaysOpen == [][C18_Step]_vars

(***************************************************************************)
(* C19  Lock discipline of the shared aggregate.  No operation requests    *)
(* the write lock while the thread holds a guard, nor a read lock while it *)
(* holds the write guard; a write guard is never held together with any    *)
(* other guard; no request is made that cannot be granted, every operation *)
(* that has lock events left can take its next one, and an operation that  *)
(* has returned holds nothing.                                             *)
(***************************************************************************)
C19_LockDiscipline ==
    /\ ~lfault
    /\ (\E i \in 1..Len(held) : held[i] = "write") => Len(held) = 1
    /\ lockOp.todo # <<>> =>
          /\ Head(lockOp.todo) = "write" => held = <<>>
          /\ Head(lockOp.todo) = "read" => \A i \in 1..Len(held) : held[i] = "read"
          /\ Head(lockOp.todo) = "drop" => held # <<>>
          /\ ENABLED (LockRead \/ LockWrite \/ LockDrop)
    /\ lockOp.todo = <<>> => held = <<>>

\* deliver_frame has found the route and holds its second read guard
C19_Witness ==
    /\ lockOp.name = "deliver_frame"
    /\ held = <<"read", "read">>
    /\ ~lfault

=============================================================================
